---- MODULE Spec2Model ----
(***************************************************************************)
(* Scoring & XP ledger of the Physics-club bot (xp.ts / scoring module).   *)
(*                                                                         *)
(* The store is the three Prisma tables User, Problem and UserAttempt.     *)
(* Every exported function is an async function: between two awaits its    *)
(* code runs without interruption, and every await is one store (or sheet) *)
(* request.  StepCall translates the functions one await at a time; the    *)
(* sequential specification Spec runs a call to completion in one action   *)
(* (RunCall iterates StepCall), the specifications SpecConc and SpecFault  *)
(* take the same steps one by one.  SpecReview adds the bot's answer-review *)
(* handlers (index.ts), which call recordAttempt.                          *)
(*                                                                         *)
(* Numbers: solve weights are multiples of 0.8^5 = 0.32768, so a weight is *)
(* kept as an integer count of 1/100000 (WeightScale).                     *)
(***************************************************************************)
EXTENDS Integers, Sequences, FiniteSets, TLC

VARIABLES
    user,          \* User table:        discordId -> [exists, xp]
    problem,       \* Problem table:     number -> row
    userAttempt,   \* UserAttempt table: <<discordId, number>> -> row
    sheet,         \* the external problem sheet: number -> <<>> (no row) or <<"Base Score">>
    call,          \* per caller: the call in flight or the last completed call
    ncalls,        \* number of calls started (step-wise specifications only)
    snap,          \* history: the store before the last successful finalize
    pendingReviews,  \* bot: userIds waiting for curator review
    cooldowns,       \* bot: userIds whose cooldown has not run out
    reviewMsg        \* bot: per user, the forwarded message in the review channel

bot == <<pendingReviews, cooldowns, reviewMsg>>

vars == <<user, problem, userAttempt, sheet, call, ncalls, snap, bot>>

-----------------------------------------------------------------------------
(* Bounds of the model *)

MaxAttempts == 2      \* a UserAttempt row is taken up to this many attempts
MaxXP == 110          \* operations that would push a balance above this are not taken
MaxOps == 4           \* operations in a run of Spec
MaxCalls == 3         \* calls started in a run of SpecConc / SpecFault

Users == {"u1", "u2"}
UserOrder == <<"u1", "u2">>          \* the order findMany returns rows in
Problems == {"p1", "p2"}
Procs == {1, 2}
Amounts == {-90, 90}                 \* amounts passed to addXP / removeXP
ConcProblems == {"p1"}               \* the problem the callers of SpecConc work on
ConcAmounts == {90}
SheetConfigs ==                      \* contents of the sheet's "Base Score" column
    { [p \in Problems |-> IF p = "p1" THEN <<100>> ELSE <<1>>] }

-----------------------------------------------------------------------------
(* Program constants *)

MAX_WRONG_ATTEMPTS == 5
MIN_DYNAMIC_BASE_SCORE == 25
WeightScale == 100000

Max(a, b) == IF a >= b THEN a ELSE b
Min(a, b) == IF a <= b THEN a ELSE b

RECURSIVE Pow(_, _)
Pow(b, k) == IF k = 0 THEN 1 ELSE b * Pow(b, k - 1)

\* faulty variant: wrong attempts are capped one short
getWrongAttemptsCappedEarly(attempts) == Max(0, Min(MAX_WRONG_ATTEMPTS - 1, attempts - 1))

\* Math.max(0, Math.min(MAX_WRONG_ATTEMPTS, attempts - 1))
getWrongAttempts(attempts) == Max(0, Min(MAX_WRONG_ATTEMPTS, attempts - 1))

\* Math.pow(0.8, k) in units of 1/WeightScale: (4/5)^k * 10^5 = 32 * 4^k * 5^(5-k)
getSolveWeight(attempts) ==
    LET k == getWrongAttempts(attempts)
    IN  32 * Pow(4, k) * Pow(5, MAX_WRONG_ATTEMPTS - k)

\* Math.round(8.90125 e^(-0.0279323 w) + 24.6239 e^(-0.402639 w)) as a step
\* function of w in units of 1/WeightScale.  The curve is strictly decreasing;
\* CurveSteps[i] is the least w at which it has dropped below 34.5 - i, so the
\* rounded value is 34 below CurveSteps[1], 33 below CurveSteps[2], ...
CurveSteps == <<248, 10293, 20751, 31657, 43050, 54976, 67487, 80640, 94506,
                109164, 124708, 141252, 158928, 177900, 198369>>

CurveRounded(w) ==
    34 - Cardinality({i \in 1..Len(CurveSteps) : w >= CurveSteps[i]})

\* faulty variant: the rounded curve without the floor
getDynamicBaseUnfloored(weightedSolves) == CurveRounded(weightedSolves)

getDynamicBaseFromWeightedSolves(weightedSolves) ==
    Max(MIN_DYNAMIC_BASE_SCORE, CurveRounded(weightedSolves))

\* Math.floor(base * weight)
AwardFor(base, attempts) == (base * getSolveWeight(attempts)) \div WeightScale

-----------------------------------------------------------------------------
(* The store *)

Null == {}                 \* a nullable column holds Null or {value}
Some(v) == {v}
Value(n) == CHOOSE v \in n : TRUE

NoUser == [exists |-> FALSE, xp |-> 0]
NoProblem ==
    [exists |-> FALSE, originalBaseScore |-> 0, baseScore |-> 0, attempts |-> 0,
     solves |-> 0, isFinalized |-> FALSE, finalizedAt |-> Null]
NoAttempt ==
    [exists |-> FALSE, attempts |-> 0, solved |-> FALSE, awardedXp |-> 0,
     preFinalizeAwardedXp |-> Null, finalizeDelta |-> 0]

\* prisma.user.create({ data: { discordId, xp: 0 } })
NewUser == [NoUser EXCEPT !.exists = TRUE]
\* prisma.problem.create({ data: { number, originalBaseScore, baseScore } });
\* the other columns take their defaults
NewProblem(originalBaseScore) ==
    [NoProblem EXCEPT !.exists = TRUE, !.originalBaseScore = originalBaseScore,
                      !.baseScore = originalBaseScore]
\* prisma.userAttempt.create({ data: { userId, problemId } }): attempts 0,
\* solved false, awardedXp 0, preFinalizeAwardedXp null, finalizeDelta 0
NewAttempt == [NoAttempt EXCEPT !.exists = TRUE]

Pairs == Users \X Problems

EmptyStore ==
    [user |-> [u \in Users |-> NoUser],
     problem |-> [p \in Problems |-> NoProblem],
     userAttempt |-> [k \in Pairs |-> NoAttempt]]

Store == [user |-> user, problem |-> problem, userAttempt |-> userAttempt]

\* findMany({ where: { problemId, solved: true } }): the solved rows of p, as
\* the sequence of their users
RECURSIVE SolvedFrom(_, _, _)
SolvedFrom(s, p, i) ==
    IF i > Len(UserOrder) THEN <<>>
    ELSE LET r == s.userAttempt[<<UserOrder[i], p>>]
         IN  (IF r.exists /\ r.solved THEN <<UserOrder[i]>> ELSE <<>>)
             \o SolvedFrom(s, p, i + 1)

SolvedUsers(s, p) == SolvedFrom(s, p, 1)

\* the rows as findMany hands them over: a copy of the selected columns
SolvedRows(s, p) ==
    LET us == SolvedUsers(s, p)
    IN  [i \in 1..Len(us) |->
            LET r == s.userAttempt[<<us[i], p>>]
            IN  [u |-> us[i], attempts |-> r.attempts, awardedXp |-> r.awardedXp,
                 preFinalizeAwardedXp |-> r.preFinalizeAwardedXp,
                 finalizeDelta |-> r.finalizeDelta]]

\* faulty variant: every solved row counts as one whole solve
SumWeightsUndecayed(rows, i) == (Len(rows) - i + 1) * WeightScale

\* rows.reduce((sum, a) => sum + getSolveWeight(a.attempts), 0)
RECURSIVE SumWeights(_, _)
SumWeights(rows, i) ==
    IF i > Len(rows) THEN 0
    ELSE getSolveWeight(rows[i].attempts) + SumWeights(rows, i + 1)

getWeightedSolves(s, p) == SumWeights(SolvedRows(s, p), 1)

-----------------------------------------------------------------------------
(* Calls.  A frame is one invocation of an exported function: its arguments,
   the await it is suspended at (pc), its local variables, and once it has
   returned or thrown, its result. *)

IdleFrame ==
    [op |-> "none", u |-> "-", p |-> "-", c |-> FALSE, amt |-> 0,
     status |-> "idle", pc |-> "-", err |-> "",
     prob |-> NoProblem,     \* problem
     usr |-> NoUser,         \* user / dbUser
     ua |-> NoAttempt,       \* userAttempt
     orig |-> 0,             \* originalBaseScore / fallbackOriginal
     rows |-> <<>>,          \* solvedAttempts
     i |-> 0,                \* position of the for loop in solvedAttempts
     ws |-> 0,               \* weightedSolves
     nb |-> 0,               \* newBaseScore / finalBaseScore / restoredBaseScore
     n1 |-> 0,               \* adjustedUsers / revertedUsers / deleteResult.count
     n2 |-> 0,               \* initializedUsers
     ret |-> <<>>,
     pre |-> EmptyStore,     \* history: the store when the call started
     seq |-> 0,              \* history: the call's number in the run
     conc |-> {}]            \* history: the calls in flight when it started

NewCall(op, u, p, c, amt, pc, s) ==
    [IdleFrame EXCEPT !.op = op, !.u = u, !.p = p, !.c = c, !.amt = amt,
                      !.status = "run", !.pc = pc, !.pre = s]

Finish(f, status, err, ret) ==
    [IdleFrame EXCEPT !.op = f.op, !.u = f.u, !.p = f.p, !.c = f.c, !.amt = f.amt,
                      !.status = status, !.err = err, !.ret = ret, !.pre = f.pre,
                      !.seq = f.seq, !.conc = f.conc]

Go(s, f) == [s |-> s, f |-> f]
Return(s, f, ret) == [s |-> s, f |-> Finish(f, "ok", "", ret)]
Throw(s, f, err) == [s |-> s, f |-> Finish(f, "err", err, <<>>)]

\* getProblemByNumber(problemNumber), then parseInt(sheetProblem.baseScore, 10):
\* throws when the sheet has no row with that number
getProblemByNumber(s, f, next) ==
    IF sheet[f.p] = <<>> THEN Throw(s, f, "SheetNotFound")
    ELSE Go(s, [f EXCEPT !.orig = sheet[f.p][1], !.pc = next])

\* getOrCreateUser, first await: prisma.user.findUnique({ where: { discordId } })
getOrCreateUserFind(s, f, create, next) ==
    IF s.user[f.u].exists
    THEN Go(s, [f EXCEPT !.usr = s.user[f.u], !.pc = next])
    ELSE Go(s, [f EXCEPT !.pc = create])

\* getOrCreateUser, second await: prisma.user.create (discordId is unique)
getOrCreateUserCreate(s, f, next) ==
    IF s.user[f.u].exists THEN Throw(s, f, "UniqueViolation")
    ELSE Go([s EXCEPT !.user[f.u] = NewUser], [f EXCEPT !.usr = NewUser, !.pc = next])

\* adjustUserXPByDbId after "if (delta === 0) return", first await: findUnique;
\* "if (!user) return" goes on at `next` without a write
adjustUserXPByDbIdFind(s, f, u, update, next) ==
    IF s.user[u].exists
    THEN Go(s, [f EXCEPT !.usr = s.user[u], !.pc = update])
    ELSE Go(s, [f EXCEPT !.n1 = f.n1 + 1, !.pc = next])

\* faulty variant: the balance is not clamped at zero
adjustUserXPByDbIdUnclamped(s, f, u, delta, next) ==
    IF ~s.user[u].exists THEN Throw(s, f, "RecordNotFound")
    ELSE Go([s EXCEPT !.user[u].xp = f.usr.xp + delta],
            [f EXCEPT !.n1 = f.n1 + 1, !.pc = next])

\* adjustUserXPByDbId, second await: update xp to Math.max(0, user.xp + delta)
adjustUserXPByDbId(s, f, u, delta, next) ==
    IF ~s.user[u].exists THEN Throw(s, f, "RecordNotFound")
    ELSE Go([s EXCEPT !.user[u].xp = Max(0, f.usr.xp + delta)],
            [f EXCEPT !.n1 = f.n1 + 1, !.pc = next])

-----------------------------------------------------------------------------
(* recordAttempt(userId, problemNumber, isCorrect) *)

newAttempts(f) == f.ua.attempts + 1
\* faulty variant: the previous verdict is ignored
newlySolvedAgain(f) == f.c

newlySolved(f) == f.c /\ ~f.ua.solved
newGlobalAttempts(f) == f.prob.attempts + 1
newGlobalSolves(f) == f.prob.solves + (IF newlySolved(f) THEN 1 ELSE 0)

\* faulty variant: the isFinalized check is missing
raHaveProblemUnchecked(s, f) ==
    IF f.prob.originalBaseScore <= 0 THEN Go(s, [f EXCEPT !.pc = "ra_backfillSheet"])
    ELSE Go(s, [f EXCEPT !.pc = "ra_findUser"])

\* the code between obtaining `problem` and the next await
raHaveProblem(s, f) ==
    IF f.prob.isFinalized THEN Throw(s, f, "Finalized")
    ELSE IF f.prob.originalBaseScore <= 0 THEN Go(s, [f EXCEPT !.pc = "ra_backfillSheet"])
    ELSE Go(s, [f EXCEPT !.pc = "ra_findUser"])

raFindProblem(s, f) ==
    IF s.problem[f.p].exists
    THEN raHaveProblem(s, [f EXCEPT !.prob = s.problem[f.p]])
    ELSE Go(s, [f EXCEPT !.pc = "ra_createSheet"])

raCreateProblem(s, f) ==
    IF s.problem[f.p].exists THEN Throw(s, f, "UniqueViolation")
    ELSE raHaveProblem([s EXCEPT !.problem[f.p] = NewProblem(f.orig)],
                       [f EXCEPT !.prob = NewProblem(f.orig)])

\* prisma.problem.update returns the row as it now is in the store
raBackfill(s, f) ==
    LET row == [s.problem[f.p] EXCEPT !.originalBaseScore = f.orig]
    IN  IF ~s.problem[f.p].exists THEN Throw(s, f, "RecordNotFound")
        ELSE Go([s EXCEPT !.problem[f.p] = row],
                [f EXCEPT !.prob = row, !.pc = "ra_findUser"])

raFindAttempt(s, f) ==
    IF s.userAttempt[<<f.u, f.p>>].exists
    THEN Go(s, [f EXCEPT !.ua = s.userAttempt[<<f.u, f.p>>], !.pc = "ra_updateAttempt"])
    ELSE Go(s, [f EXCEPT !.pc = "ra_createAttempt"])

raCreateAttempt(s, f) ==
    IF s.userAttempt[<<f.u, f.p>>].exists THEN Throw(s, f, "UniqueViolation")
    ELSE Go([s EXCEPT !.userAttempt[<<f.u, f.p>>] = NewAttempt],
            [f EXCEPT !.ua = NewAttempt, !.pc = "ra_updateAttempt"])

\* faulty variant: the verdict overwrites the solved flag
raUpdateAttemptOverwrite(s, f) ==
    IF ~s.userAttempt[<<f.u, f.p>>].exists THEN Throw(s, f, "RecordNotFound")
    ELSE Go([s EXCEPT !.userAttempt[<<f.u, f.p>>].attempts = newAttempts(f),
                      !.userAttempt[<<f.u, f.p>>].solved = f.c],
            [f EXCEPT !.pc = "ra_updateCounters"])

raUpdateAttempt(s, f) ==
    IF ~s.userAttempt[<<f.u, f.p>>].exists THEN Throw(s, f, "RecordNotFound")
    ELSE Go([s EXCEPT !.userAttempt[<<f.u, f.p>>].attempts = newAttempts(f),
                      !.userAttempt[<<f.u, f.p>>].solved = (f.ua.solved \/ f.c)],
            [f EXCEPT !.pc = "ra_updateCounters"])

raUpdateCounters(s, f) ==
    IF ~s.problem[f.p].exists THEN Throw(s, f, "RecordNotFound")
    ELSE Go([s EXCEPT !.problem[f.p].attempts = newGlobalAttempts(f),
                      !.problem[f.p].solves = newGlobalSolves(f)],
            [f EXCEPT !.pc = "ra_findSolved"])

\* faulty variant: the base score is recomputed only when the call is a new solve
raFindSolvedOnSolve(s, f) ==
    LET w == getWeightedSolves(s, f.p)
    IN  Go(s, [f EXCEPT !.ws = w,
                        !.nb = IF newlySolved(f) THEN getDynamicBaseFromWeightedSolves(w)
                               ELSE f.prob.baseScore,
                        !.pc = "ra_updateBaseScore"])

raFindSolved(s, f) ==
    LET w == getWeightedSolves(s, f.p)
    IN  Go(s, [f EXCEPT !.ws = w, !.nb = getDynamicBaseFromWeightedSolves(w),
                        !.pc = "ra_updateBaseScore"])

raUpdateBaseScore(s, f) ==
    IF ~s.problem[f.p].exists THEN Throw(s, f, "RecordNotFound")
    ELSE Go([s EXCEPT !.problem[f.p].baseScore = f.nb],
            [f EXCEPT !.pc = IF newlySolved(f) THEN "ra_addFindUser" ELSE "ra_latestUser"])

\* faulty variant: the award is taken from the dynamic base score
baseForAwardDynamic(f) == f.nb

baseForAward(f) ==
    IF f.prob.originalBaseScore > 0 THEN f.prob.originalBaseScore ELSE f.prob.baseScore

awardedXP(f) == AwardFor(baseForAward(f), newAttempts(f))

AttemptResult(f, awarded, userXP) ==
    [awardedXP |-> awarded, userXP |-> userXP, attemptNumber |-> newAttempts(f),
     totalProblemAttempts |-> newGlobalAttempts(f),
     totalProblemSolves |-> newGlobalSolves(f), weightedSolves |-> f.ws,
     originalBaseScore |-> f.prob.originalBaseScore, currentBaseScore |-> f.nb]

\* addXP(userId, awardedXP, ...), its update: newXP = Math.max(0, user.xp + amount)
raAddUpdate(s, f) ==
    IF ~s.user[f.u].exists THEN Throw(s, f, "RecordNotFound")
    ELSE Go([s EXCEPT !.user[f.u].xp = Max(0, f.usr.xp + awardedXP(f))],
            [f EXCEPT !.usr.xp = Max(0, f.usr.xp + awardedXP(f)), !.pc = "ra_updateAward"])

raUpdateAward(s, f) ==
    IF ~s.userAttempt[<<f.u, f.p>>].exists THEN Throw(s, f, "RecordNotFound")
    ELSE Return([s EXCEPT !.userAttempt[<<f.u, f.p>>].awardedXp = awardedXP(f)], f,
                AttemptResult(f, awardedXP(f), f.usr.xp))

\* latestUser?.xp ?? dbUser.xp
raLatestUser(s, f) ==
    Return(s, f, AttemptResult(f, 0, IF s.user[f.u].exists THEN s.user[f.u].xp ELSE f.usr.xp))

recordAttemptStep(s, f) ==
    CASE f.pc = "ra_findProblem" -> raFindProblem(s, f)
      [] f.pc = "ra_createSheet" -> getProblemByNumber(s, f, "ra_createProblem")
      [] f.pc = "ra_createProblem" -> raCreateProblem(s, f)
      [] f.pc = "ra_backfillSheet" -> getProblemByNumber(s, f, "ra_backfill")
      [] f.pc = "ra_backfill" -> raBackfill(s, f)
      [] f.pc = "ra_findUser" -> getOrCreateUserFind(s, f, "ra_createUser", "ra_findAttempt")
      [] f.pc = "ra_createUser" -> getOrCreateUserCreate(s, f, "ra_findAttempt")
      [] f.pc = "ra_findAttempt" -> raFindAttempt(s, f)
      [] f.pc = "ra_createAttempt" -> raCreateAttempt(s, f)
      [] f.pc = "ra_updateAttempt" -> raUpdateAttempt(s, f)
      [] f.pc = "ra_updateCounters" -> raUpdateCounters(s, f)
      [] f.pc = "ra_findSolved" -> raFindSolved(s, f)
      [] f.pc = "ra_updateBaseScore" -> raUpdateBaseScore(s, f)
      [] f.pc = "ra_addFindUser" -> getOrCreateUserFind(s, f, "ra_addCreateUser", "ra_addUpdate")
      [] f.pc = "ra_addCreateUser" -> getOrCreateUserCreate(s, f, "ra_addUpdate")
      [] f.pc = "ra_addUpdate" -> raAddUpdate(s, f)
      [] f.pc = "ra_updateAward" -> raUpdateAward(s, f)
      [] f.pc = "ra_latestUser" -> raLatestUser(s, f)

-----------------------------------------------------------------------------
(* finalizeProblemScoring(problemNumber) *)

\* attempt.preFinalizeAwardedXp ?? attempt.awardedXp
baselineAward(row) ==
    IF row.preFinalizeAwardedXp = Null THEN row.awardedXp
    ELSE Value(row.preFinalizeAwardedXp)

\* faulty variant: the final award is taken from the original base score
finalAwardFromOriginal(f, row) == AwardFor(f.prob.originalBaseScore, row.attempts)

finalAward(f, row) == AwardFor(f.nb, row.attempts)

\* faulty variant: a baseline of 0 gets a delta like any other
finalizeDeltaAlways(f, row) == finalAward(f, row) - baselineAward(row)

finalizeDeltaOf(f, row) ==
    IF baselineAward(row) = 0 THEN 0 ELSE finalAward(f, row) - baselineAward(row)

\* the head of the for loop, up to the next await
finLoop(s, f) ==
    IF f.i > Len(f.rows) THEN Go(s, [f EXCEPT !.pc = "fin_updateProblem"])
    ELSE IF baselineAward(f.rows[f.i]) = 0
         THEN Go(s, [f EXCEPT !.n2 = f.n2 + 1, !.pc = "fin_updateAttempt"])
    ELSE IF finalizeDeltaOf(f, f.rows[f.i]) # 0
         THEN Go(s, [f EXCEPT !.pc = "fin_adjustFind"])
    ELSE Go(s, [f EXCEPT !.pc = "fin_updateAttempt"])

\* faulty variant: an already finalized problem is finalized again
finFindProblemAgain(s, f) ==
    IF ~s.problem[f.p].exists THEN Throw(s, f, "NotFound")
    ELSE Go(s, [f EXCEPT !.prob = s.problem[f.p], !.pc = "fin_findSolved"])

finFindProblem(s, f) ==
    IF ~s.problem[f.p].exists THEN Throw(s, f, "NotFound")
    ELSE IF s.problem[f.p].isFinalized THEN Throw(s, f, "AlreadyFinalized")
    ELSE Go(s, [f EXCEPT !.prob = s.problem[f.p], !.pc = "fin_findSolved"])

finFindSolved(s, f) ==
    LET rows == SolvedRows(s, f.p)
        w == SumWeights(rows, 1)
    IN  finLoop(s, [f EXCEPT !.rows = rows, !.ws = w,
                             !.nb = getDynamicBaseFromWeightedSolves(w),
                             !.n1 = 0, !.n2 = 0, !.i = 1])

\* faulty variant: rows with a baseline of 0 are left as they are
finUpdateAttemptSkipZero(s, f) ==
    LET row == f.rows[f.i]
        k == <<row.u, f.p>>
    IN  IF ~s.userAttempt[k].exists THEN Throw(s, f, "RecordNotFound")
        ELSE IF baselineAward(row) = 0 THEN finLoop(s, [f EXCEPT !.i = f.i + 1])
        ELSE finLoop([s EXCEPT !.userAttempt[k].preFinalizeAwardedXp = Some(baselineAward(row)),
                               !.userAttempt[k].awardedXp = finalAward(f, row),
                               !.userAttempt[k].finalizeDelta = finalizeDeltaOf(f, row)],
                     [f EXCEPT !.i = f.i + 1])

finUpdateAttempt(s, f) ==
    LET row == f.rows[f.i]
        k == <<row.u, f.p>>
    IN  IF ~s.userAttempt[k].exists THEN Throw(s, f, "RecordNotFound")
        ELSE finLoop([s EXCEPT !.userAttempt[k].preFinalizeAwardedXp = Some(baselineAward(row)),
                               !.userAttempt[k].awardedXp = finalAward(f, row),
                               !.userAttempt[k].finalizeDelta = finalizeDeltaOf(f, row)],
                     [f EXCEPT !.i = f.i + 1])

\* faulty variant: finalizing also clears the attempt counter
finUpdateProblemClearing(s, f) ==
    IF ~s.problem[f.p].exists THEN Throw(s, f, "RecordNotFound")
    ELSE Return([s EXCEPT !.problem[f.p].baseScore = f.nb,
                          !.problem[f.p].attempts = 0,
                          !.problem[f.p].isFinalized = TRUE,
                          !.problem[f.p].finalizedAt = Some("now")], f,
                [finalBaseScore |-> f.nb, weightedSolves |-> f.ws,
                 adjustedUsers |-> f.n1, initializedUsers |-> f.n2])

finUpdateProblem(s, f) ==
    IF ~s.problem[f.p].exists THEN Throw(s, f, "RecordNotFound")
    ELSE Return([s EXCEPT !.problem[f.p].baseScore = f.nb,
                          !.problem[f.p].isFinalized = TRUE,
                          !.problem[f.p].finalizedAt = Some("now")], f,
                [finalBaseScore |-> f.nb, weightedSolves |-> f.ws,
                 adjustedUsers |-> f.n1, initializedUsers |-> f.n2])

finalizeProblemScoringStep(s, f) ==
    CASE f.pc = "fin_findProblem" -> finFindProblem(s, f)
      [] f.pc = "fin_findSolved" -> finFindSolved(s, f)
      [] f.pc = "fin_adjustFind" ->
            adjustUserXPByDbIdFind(s, f, f.rows[f.i].u, "fin_adjustUpdate", "fin_updateAttempt")
      [] f.pc = "fin_adjustUpdate" ->
            adjustUserXPByDbId(s, f, f.rows[f.i].u, finalizeDeltaOf(f, f.rows[f.i]),
                               "fin_updateAttempt")
      [] f.pc = "fin_updateAttempt" -> finUpdateAttempt(s, f)
      [] f.pc = "fin_updateProblem" -> finUpdateProblem(s, f)

-----------------------------------------------------------------------------
(* unfinalizeProblemScoring(problemNumber) *)

\* the head of the for loop, up to the next await ("continue" on a null snapshot)
RECURSIVE unfLoop(_, _)
unfLoop(s, f) ==
    IF f.i > Len(f.rows) THEN Go(s, [f EXCEPT !.pc = "unf_weightedSolves"])
    ELSE IF f.rows[f.i].preFinalizeAwardedXp = Null
         THEN unfLoop(s, [f EXCEPT !.i = f.i + 1])
    ELSE IF -f.rows[f.i].finalizeDelta # 0
         THEN Go(s, [f EXCEPT !.pc = "unf_adjustFind"])
    ELSE Go(s, [f EXCEPT !.pc = "unf_updateAttempt"])

unfFindProblem(s, f) ==
    IF ~s.problem[f.p].exists THEN Throw(s, f, "NotFound")
    ELSE IF ~s.problem[f.p].isFinalized THEN Throw(s, f, "NotFinalized")
    ELSE Go(s, [f EXCEPT !.prob = s.problem[f.p], !.pc = "unf_findSolved"])

unfFindSolved(s, f) ==
    unfLoop(s, [f EXCEPT !.rows = SolvedRows(s, f.p), !.n1 = 0, !.i = 1])

\* faulty variant: the row keeps its final award when the snapshot is cleared
unfUpdateAttemptKeepAward(s, f) ==
    LET row == f.rows[f.i]
        k == <<row.u, f.p>>
    IN  IF ~s.userAttempt[k].exists THEN Throw(s, f, "RecordNotFound")
        ELSE unfLoop([s EXCEPT !.userAttempt[k].preFinalizeAwardedXp = Null,
                               !.userAttempt[k].finalizeDelta = 0],
                     [f EXCEPT !.i = f.i + 1])

unfUpdateAttempt(s, f) ==
    LET row == f.rows[f.i]
        k == <<row.u, f.p>>
    IN  IF ~s.userAttempt[k].exists THEN Throw(s, f, "RecordNotFound")
        ELSE unfLoop([s EXCEPT !.userAttempt[k].awardedXp = Value(row.preFinalizeAwardedXp),
                               !.userAttempt[k].preFinalizeAwardedXp = Null,
                               !.userAttempt[k].finalizeDelta = 0],
                     [f EXCEPT !.i = f.i + 1])

unfWeightedSolves(s, f) ==
    LET w == getWeightedSolves(s, f.p)
    IN  Go(s, [f EXCEPT !.ws = w, !.nb = getDynamicBaseFromWeightedSolves(w),
                        !.pc = "unf_updateProblem"])

\* faulty variant: the finalize date survives the unfinalize
unfUpdateProblemKeepDate(s, f) ==
    IF ~s.problem[f.p].exists THEN Throw(s, f, "RecordNotFound")
    ELSE Return([s EXCEPT !.problem[f.p].baseScore = f.nb,
                          !.problem[f.p].isFinalized = FALSE], f,
                [restoredBaseScore |-> f.nb, revertedUsers |-> f.n1])

unfUpdateProblem(s, f) ==
    IF ~s.problem[f.p].exists THEN Throw(s, f, "RecordNotFound")
    ELSE Return([s EXCEPT !.problem[f.p].baseScore = f.nb,
                          !.problem[f.p].isFinalized = FALSE,
                          !.problem[f.p].finalizedAt = Null], f,
                [restoredBaseScore |-> f.nb, revertedUsers |-> f.n1])

unfinalizeProblemScoringStep(s, f) ==
    CASE f.pc = "unf_findProblem" -> unfFindProblem(s, f)
      [] f.pc = "unf_findSolved" -> unfFindSolved(s, f)
      [] f.pc = "unf_adjustFind" ->
            adjustUserXPByDbIdFind(s, f, f.rows[f.i].u, "unf_adjustUpdate", "unf_updateAttempt")
      [] f.pc = "unf_adjustUpdate" ->
            adjustUserXPByDbId(s, f, f.rows[f.i].u, -f.rows[f.i].finalizeDelta,
                               "unf_updateAttempt")
      [] f.pc = "unf_updateAttempt" -> unfUpdateAttempt(s, f)
      [] f.pc = "unf_weightedSolves" -> unfWeightedSolves(s, f)
      [] f.pc = "unf_updateProblem" -> unfUpdateProblem(s, f)

-----------------------------------------------------------------------------
(* resetProblemStats(problemNumber) *)

\* faulty variant: a missing problem is reported as reset
rstFindProblemSilent(s, f) ==
    IF ~s.problem[f.p].exists
    THEN Return(s, f, [clearedUserAttempts |-> 0, originalBaseScore |-> 0, currentBaseScore |-> 0])
    ELSE Go(s, [f EXCEPT !.prob = s.problem[f.p], !.pc = "rst_deleteMany"])

rstFindProblem(s, f) ==
    IF ~s.problem[f.p].exists THEN Throw(s, f, "NotFound")
    ELSE Go(s, [f EXCEPT !.prob = s.problem[f.p], !.pc = "rst_deleteMany"])

\* faulty variant: only the solved rows are deleted
rstDeleteManySolved(s, f) ==
    Go([s EXCEPT !.userAttempt =
            [k \in Pairs |-> IF k[2] = f.p /\ s.userAttempt[k].solved
                             THEN NoAttempt ELSE s.userAttempt[k]]],
       [f EXCEPT !.n1 = Cardinality({u \in Users : s.userAttempt[<<u, f.p>>].exists
                                                    /\ s.userAttempt[<<u, f.p>>].solved}),
                 !.pc = "rst_updateProblem"])

rstDeleteMany(s, f) ==
    Go([s EXCEPT !.userAttempt =
            [k \in Pairs |-> IF k[2] = f.p THEN NoAttempt ELSE s.userAttempt[k]]],
       [f EXCEPT !.n1 = Cardinality({u \in Users : s.userAttempt[<<u, f.p>>].exists}),
                 !.pc = "rst_updateProblem"])

resetBaseScore(f) ==
    IF f.prob.originalBaseScore > 0 THEN f.prob.originalBaseScore ELSE f.prob.baseScore

\* faulty variant: the reset also rewrites originalBaseScore
rstUpdateProblemRebase(s, f) ==
    IF ~s.problem[f.p].exists THEN Throw(s, f, "RecordNotFound")
    ELSE Return([s EXCEPT !.problem[f.p].attempts = 0,
                          !.problem[f.p].solves = 0,
                          !.problem[f.p].originalBaseScore = f.prob.baseScore,
                          !.problem[f.p].baseScore = resetBaseScore(f)], f,
                [clearedUserAttempts |-> f.n1,
                 originalBaseScore |-> f.prob.baseScore,
                 currentBaseScore |-> resetBaseScore(f)])

rstUpdateProblem(s, f) ==
    IF ~s.problem[f.p].exists THEN Throw(s, f, "RecordNotFound")
    ELSE Return([s EXCEPT !.problem[f.p].attempts = 0,
                          !.problem[f.p].solves = 0,
                          !.problem[f.p].baseScore = resetBaseScore(f)], f,
                [clearedUserAttempts |-> f.n1,
                 originalBaseScore |-> s.problem[f.p].originalBaseScore,
                 currentBaseScore |-> resetBaseScore(f)])

resetProblemStatsStep(s, f) ==
    CASE f.pc = "rst_findProblem" -> rstFindProblem(s, f)
      [] f.pc = "rst_deleteMany" -> rstDeleteMany(s, f)
      [] f.pc = "rst_updateProblem" -> rstUpdateProblem(s, f)

-----------------------------------------------------------------------------
(* addXP(discordId, amount) and removeXP(discordId, amount) *)

xpUpdate(s, f, delta) ==
    IF ~s.user[f.u].exists THEN Throw(s, f, "RecordNotFound")
    ELSE Return([s EXCEPT !.user[f.u].xp = Max(0, f.usr.xp + delta)], f,
                [newXP |-> Max(0, f.usr.xp + delta)])

addXPStep(s, f) ==
    CASE f.pc = "add_findUser" -> getOrCreateUserFind(s, f, "add_createUser", "add_update")
      [] f.pc = "add_createUser" -> getOrCreateUserCreate(s, f, "add_update")
      [] f.pc = "add_update" -> xpUpdate(s, f, f.amt)

removeXPStep(s, f) ==
    CASE f.pc = "rem_findUser" -> getOrCreateUserFind(s, f, "rem_createUser", "rem_update")
      [] f.pc = "rem_createUser" -> getOrCreateUserCreate(s, f, "rem_update")
      [] f.pc = "rem_update" -> xpUpdate(s, f, -f.amt)

-----------------------------------------------------------------------------
(* adjustUserXPByDbId(userId, delta) called on its own *)

adjustUserXPByDbIdStep(s, f) ==
    LET r == CASE f.pc = "adj_find" ->
                     IF f.amt = 0 THEN Go(s, [f EXCEPT !.pc = "adj_done"])
                     ELSE adjustUserXPByDbIdFind(s, f, f.u, "adj_update", "adj_done")
               [] f.pc = "adj_update" -> adjustUserXPByDbId(s, f, f.u, f.amt, "adj_done")
    IN  IF r.f.status = "run" /\ r.f.pc = "adj_done" THEN Return(r.s, r.f, <<>>) ELSE r

-----------------------------------------------------------------------------
(* One await of a call, and a call run to its end *)

StepCall(s, f) ==
    CASE f.op = "recordAttempt" -> recordAttemptStep(s, f)
      [] f.op = "finalize" -> finalizeProblemScoringStep(s, f)
      [] f.op = "unfinalize" -> unfinalizeProblemScoringStep(s, f)
      [] f.op = "reset" -> resetProblemStatsStep(s, f)
      [] f.op = "addXP" -> addXPStep(s, f)
      [] f.op = "removeXP" -> removeXPStep(s, f)
      [] f.op = "adjustUserXPByDbId" -> adjustUserXPByDbIdStep(s, f)

RECURSIVE RunCall(_, _)
RunCall(s, f) ==
    IF f.status # "run" THEN Go(s, f)
    ELSE LET r == StepCall(s, f) IN RunCall(r.s, r.f)

-----------------------------------------------------------------------------
(* The specifications *)

NoSnap == [on |-> "none", p |-> "-", s |-> EmptyStore]

\* the bot starts with nobody pending, no cooldown and no forwarded message
BotInit ==
    /\ pendingReviews = {}
    /\ cooldowns = {}
    /\ reviewMsg = [u \in Users |-> "none"]

Init ==
    /\ user = EmptyStore.user
    /\ problem = EmptyStore.problem
    /\ userAttempt = EmptyStore.userAttempt
    /\ sheet \in SheetConfigs
    /\ call = [i \in Procs |-> IdleFrame]
    /\ ncalls = 0
    /\ snap = NoSnap
    /\ BotInit

Bounded(s) ==
    /\ \A u \in Users : s.user[u].xp <= MaxXP
    /\ \A k \in Pairs : s.userAttempt[k].attempts <= MaxAttempts

\* history: the store before a successful finalize is kept while the only
\* operation after it is the unfinalize of the same problem
SnapAfter(f) ==
    IF f.op = "finalize" /\ f.status = "ok"
    THEN [on |-> "finalized", p |-> f.p, s |-> Store]
    ELSE IF f.op = "unfinalize" /\ f.status = "ok" /\ snap.on = "finalized" /\ snap.p = f.p
    THEN [snap EXCEPT !.on = "restored"]
    ELSE NoSnap

\* the outcome r of a whole call becomes the state: call[1] keeps the result,
\* h is the history kept; runs are cut off after max calls
Outcome(r, max, h) ==
    /\ ncalls < max
    /\ Bounded(r.s)
    /\ user' = r.s.user
    /\ problem' = r.s.problem
    /\ userAttempt' = r.s.userAttempt
    /\ snap' = h
    /\ UNCHANGED bot
    /\ ncalls' = ncalls + 1
    /\ call' = [call EXCEPT ![1] = r.f]
    /\ UNCHANGED sheet

\* a whole call, run with no other call in flight
Whole(f) ==
    LET r == RunCall(Store, f)
    IN  Outcome(r, MaxOps, SnapAfter(r.f))

recordAttempt(u, p, c) ==
    Whole(NewCall("recordAttempt", u, p, c, 0, "ra_findProblem", EmptyStore))

finalizeProblemScoring(p) ==
    Whole(NewCall("finalize", "-", p, FALSE, 0, "fin_findProblem", EmptyStore))

unfinalizeProblemScoring(p) ==
    Whole(NewCall("unfinalize", "-", p, FALSE, 0, "unf_findProblem", EmptyStore))

resetProblemStats(p) ==
    Whole(NewCall("reset", "-", p, FALSE, 0, "rst_findProblem", EmptyStore))

addXP(u, amount) ==
    Whole(NewCall("addXP", u, "-", FALSE, amount, "add_findUser", EmptyStore))

removeXP(u, amount) ==
    Whole(NewCall("removeXP", u, "-", FALSE, amount, "rem_findUser", EmptyStore))

Next ==
    \/ \E u \in Users, p \in Problems, c \in BOOLEAN : recordAttempt(u, p, c)
    \/ \E p \in Problems : finalizeProblemScoring(p)
    \/ \E p \in Problems : unfinalizeProblemScoring(p)
    \/ \E p \in Problems : resetProblemStats(p)
    \/ \E u \in Users, a \in Amounts : addXP(u, a)
    \/ \E u \in Users, a \in Amounts : removeXP(u, a)

Spec == Init /\ [][Next]_vars

-----------------------------------------------------------------------------
(* The same calls taken one await at a time.  A caller starts a call while it
   has none in flight; Await lets the store serve the request a call is
   suspended at and runs the call up to its next await. *)

Begin(i, f) ==
    /\ call[i].status # "run"
    /\ ncalls < MaxCalls
    /\ call' = [call EXCEPT ![i] =
                    [f EXCEPT !.seq = ncalls + 1,
                              !.conc = {call[j].seq : j \in {k \in Procs : call[k].status = "run"}}]]
    /\ ncalls' = ncalls + 1
    /\ UNCHANGED <<user, problem, userAttempt, sheet, snap, bot>>

CallRecordAttempt(i, u, p, c) ==
    Begin(i, NewCall("recordAttempt", u, p, c, 0, "ra_findProblem", Store))

CallFinalize(i, p) ==
    Begin(i, NewCall("finalize", "-", p, FALSE, 0, "fin_findProblem", Store))

CallUnfinalize(i, p) ==
    Begin(i, NewCall("unfinalize", "-", p, FALSE, 0, "unf_findProblem", Store))

CallReset(i, p) ==
    Begin(i, NewCall("reset", "-", p, FALSE, 0, "rst_findProblem", Store))

CallAddXP(i, u, amount) ==
    Begin(i, NewCall("addXP", u, "-", FALSE, amount, "add_findUser", Store))

CallRemoveXP(i, u, amount) ==
    Begin(i, NewCall("removeXP", u, "-", FALSE, amount, "rem_findUser", Store))

Await(i) ==
    /\ call[i].status = "run"
    /\ LET r == StepCall(Store, call[i])
       IN  /\ user' = r.s.user
           /\ problem' = r.s.problem
           /\ userAttempt' = r.s.userAttempt
           /\ call' = [call EXCEPT ![i] = r.f]
    /\ UNCHANGED <<sheet, ncalls, snap, bot>>

\* the request a call is suspended at fails: the await throws, nothing is written
Fault(i) ==
    /\ call[i].status = "run"
    /\ call' = [call EXCEPT ![i] = Finish(call[i], "err", "StoreError", <<>>)]
    /\ UNCHANGED <<user, problem, userAttempt, sheet, ncalls, snap, bot>>

Calls(i, ps, as) ==
    \/ \E u \in Users, p \in ps, c \in BOOLEAN : CallRecordAttempt(i, u, p, c)
    \/ \E p \in ps : CallFinalize(i, p)
    \/ \E p \in ps : CallUnfinalize(i, p)
    \/ \E p \in ps : CallReset(i, p)
    \/ \E u \in Users, a \in as : CallAddXP(i, u, a)
    \/ \E u \in Users, a \in as : CallRemoveXP(i, u, a)

\* two callers working on one problem: the calls of a run follow one another,
\* except the last, which may start while the call before it is in flight; the
\* two are then interleaved await by await
Overlap == (\A j \in Procs : call[j].status # "run") \/ ncalls = MaxCalls - 1

NextConc ==
    \E i \in Procs : (Overlap /\ Calls(i, ConcProblems, ConcAmounts)) \/ Await(i)

SpecConc == Init /\ [][NextConc]_vars

\* one caller, whose store requests may fail
NextFault == Calls(1, Problems, Amounts) \/ Await(1) \/ Fault(1)

SpecFault == Init /\ [][NextFault]_vars

-----------------------------------------------------------------------------
(* The decay model on its own.  Each of two callers applies one of the pure
   functions to an argument of its own (kept in amt); the store is not
   touched.  Weighted-solve totals are the sums the solved rows of a problem
   can produce, and a grid of further values. *)

MaxSolveAttempts == 8      \* attempt counts passed to getSolveWeight: 0..MaxSolveAttempts
MaxSolvers == 2            \* solved rows summed into a weighted-solve total
GridPoints == 30           \* further totals: 0.04 * k for k in 0..GridPoints

AttemptLists == UNION {[1..n -> 1..(MAX_WRONG_ATTEMPTS + 1)] : n \in 0..MaxSolvers}
RowsOf(as) == [i \in 1..Len(as) |-> [attempts |-> as[i]]]
WeightTotals ==
    {SumWeights(RowsOf(as), 1) : as \in AttemptLists} \cup {4000 * k : k \in 0..GridPoints}

PureCall(op, x) == NewCall(op, "-", "-", FALSE, x, "apply", EmptyStore)

InitDecay ==
    /\ user = EmptyStore.user
    /\ problem = EmptyStore.problem
    /\ userAttempt = EmptyStore.userAttempt
    /\ sheet \in SheetConfigs
    /\ ncalls = 0
    /\ snap = NoSnap
    /\ BotInit
    /\ \/ \E a \in [Procs -> 0..MaxSolveAttempts] :
             call = [i \in Procs |-> PureCall("getSolveWeight", a[i])]
       \/ \E w \in [Procs -> WeightTotals] :
             call = [i \in Procs |-> PureCall("getDynamicBaseFromWeightedSolves", w[i])]

ApplySolveWeight(i) ==
    /\ call[i].op = "getSolveWeight" /\ call[i].status = "run"
    /\ call' = [call EXCEPT ![i] =
                    Finish(call[i], "ok", "", [weight |-> getSolveWeight(call[i].amt)])]
    /\ UNCHANGED <<user, problem, userAttempt, sheet, ncalls, snap, bot>>

ApplyDynamicBase(i) ==
    /\ call[i].op = "getDynamicBaseFromWeightedSolves" /\ call[i].status = "run"
    /\ call' = [call EXCEPT ![i] =
                    Finish(call[i], "ok", "",
                           [base |-> getDynamicBaseFromWeightedSolves(call[i].amt)])]
    /\ UNCHANGED <<user, problem, userAttempt, sheet, ncalls, snap, bot>>

NextDecay == \E i \in Procs : ApplySolveWeight(i) \/ ApplyDynamicBase(i)

SpecDecay == InitDecay /\ [][NextDecay]_vars

-----------------------------------------------------------------------------
(* The XP ledger on its own: addXP and removeXP by discordId, and
   adjustUserXPByDbId by the user's id, each as a whole call. *)

LedgerAmounts == {-20, 0, 20, 90}

adjustUserXP(u, delta) ==
    Whole(NewCall("adjustUserXPByDbId", u, "-", FALSE, delta, "adj_find", EmptyStore))

NextLedger ==
    \/ \E u \in Users, a \in LedgerAmounts : addXP(u, a)
    \/ \E u \in Users, a \in LedgerAmounts : removeXP(u, a)
    \/ \E u \in Users, d \in LedgerAmounts : adjustUserXP(u, d)

SpecLedger == Init /\ [][NextLedger]_vars

-----------------------------------------------------------------------------
(* Finalize / unfinalize cycles on one problem, with recordAttempt calls in
   between and nothing else.  The history kept in snap: the store before the
   first successful finalize (s), the number of successful finalizes so far
   (k), and for each user the awardedXP their first solve returned (credit). *)

CycleProblems == {"p2"}
MaxCycleOps == 8           \* calls in a run of cycles

NoCycles ==
    [on |-> "cycles", p |-> "-", s |-> EmptyStore, k |-> 0, credit |-> [u \in Users |-> Null]]

CyclesAfter(f) ==
    IF f.status # "ok" THEN snap
    ELSE IF f.op = "finalize"
    THEN [snap EXCEPT !.p = f.p, !.k = @ + 1, !.s = IF snap.k = 0 THEN Store ELSE @]
    ELSE IF f.op = "recordAttempt" /\ f.c /\ ~userAttempt[<<f.u, f.p>>].solved
    THEN [snap EXCEPT !.credit[f.u] = Some(f.ret.awardedXP)]
    ELSE snap

InitCycles ==
    /\ user = EmptyStore.user
    /\ problem = EmptyStore.problem
    /\ userAttempt = EmptyStore.userAttempt
    /\ sheet \in SheetConfigs
    /\ call = [i \in Procs |-> IdleFrame]
    /\ ncalls = 0
    /\ snap = NoCycles
    /\ BotInit

Cycle(f) ==
    LET r == RunCall(Store, f)
    IN  Outcome(r, MaxCycleOps, CyclesAfter(r.f))

NextCycles ==
    \/ \E u \in Users, p \in CycleProblems, c \in BOOLEAN :
          Cycle(NewCall("recordAttempt", u, p, c, 0, "ra_findProblem", EmptyStore))
    \/ \E p \in CycleProblems :
          Cycle(NewCall("finalize", "-", p, FALSE, 0, "fin_findProblem", EmptyStore))
    \/ \E p \in CycleProblems :
          Cycle(NewCall("unfinalize", "-", p, FALSE, 0, "unf_findProblem", EmptyStore))

SpecCycles == InitCycles /\ [][NextCycles]_vars

-----------------------------------------------------------------------------
(* recordAttempt against a sheet that is edited while the program runs.  The
   sheet is read afresh by every getProblemByNumber; its "Base Score" cell may
   hold 0, and a row may be removed or come back between two awaits. *)

SheetProblems == {"p1"}
SheetRows == {<<>>, <<0>>, <<100>>}

EditSheet(p, row) ==
    /\ sheet[p] # row
    /\ sheet' = [sheet EXCEPT ![p] = row]
    /\ UNCHANGED <<user, problem, userAttempt, call, ncalls, snap, bot>>

NextSheet ==
    \/ \E u \in Users, p \in SheetProblems, c \in BOOLEAN : CallRecordAttempt(1, u, p, c)
    \/ Await(1)
    \/ \E p \in SheetProblems, row \in SheetRows : EditSheet(p, row)

SpecSheet == Init /\ [][NextSheet]_vars

-----------------------------------------------------------------------------
(* The answer-review system of the bot.  A user's DM is forwarded to the
   review channel with Correct / Wrong buttons and the user is added to
   pendingReviews; a curator's click runs the button handler, which calls
   recordAttempt, sends the attempt log and replaces the buttons.  Each
   handler is an async function taken one await at a time; recordAttempt is
   run to its end inside the handler's await.  /finalize and /unfinalize are
   issued between the handlers' steps. *)

ReviewProblem == "p1"      \* getCurrentProblemNumber()
ReviewUsers == {"u1"}      \* the users who send DMs

RowAttempts(u) == userAttempt[<<u, ReviewProblem>>].attempts

\* a DM arrives from u: the MessageCreate handler starts
SendDirectMessage(i, u) ==
    /\ call[i].status # "run"
    /\ RowAttempts(u) < MaxAttempts
    /\ call' = [call EXCEPT ![i] =
                    NewCall("dm", u, ReviewProblem, FALSE, 0, "dm_findUser", EmptyStore)]
    /\ UNCHANGED <<user, problem, userAttempt, sheet, ncalls, snap, bot>>

\* the checks between the attempt lookup and the forward: already solved,
\* still pending, cooling down
dmChecks(f, solved) ==
    IF solved THEN Finish(f, "ok", "", [reply |-> "solved"])
    ELSE IF f.u \in pendingReviews THEN Finish(f, "ok", "", [reply |-> "pending"])
    ELSE IF f.u \in cooldowns THEN Finish(f, "ok", "", [reply |-> "cooldown"])
    ELSE [f EXCEPT !.pc = "dm_send"]

\* the DM handler up to its next await; an exception is caught and answered
DmStep(i) ==
    LET f == call[i]
    IN  /\ f.op = "dm" /\ f.status = "run"
        /\ UNCHANGED <<problem, userAttempt, sheet, ncalls, snap, cooldowns>>
        /\ \/ /\ f.pc = "dm_findUser"
              /\ call' = [call EXCEPT ![i] =
                              getOrCreateUserFind(Store, f, "dm_createUser", "dm_findProblem").f]
              /\ UNCHANGED <<user, pendingReviews, reviewMsg>>
           \/ /\ f.pc = "dm_createUser"
              /\ LET r == getOrCreateUserCreate(Store, f, "dm_findProblem")
                 IN  user' = r.s.user /\ call' = [call EXCEPT ![i] = r.f]
              /\ UNCHANGED <<pendingReviews, reviewMsg>>
           \/ /\ f.pc = "dm_findProblem"
              /\ call' = [call EXCEPT ![i] =
                              IF problem[f.p].exists THEN [f EXCEPT !.pc = "dm_findAttempt"]
                              ELSE dmChecks(f, FALSE)]
              /\ UNCHANGED <<user, pendingReviews, reviewMsg>>
           \/ /\ f.pc = "dm_findAttempt"
              /\ call' = [call EXCEPT ![i] =
                              dmChecks(f, /\ userAttempt[<<f.u, f.p>>].exists
                                          /\ userAttempt[<<f.u, f.p>>].solved)]
              /\ UNCHANGED <<user, pendingReviews, reviewMsg>>
           \/ /\ f.pc = "dm_send"
              /\ \E sent \in BOOLEAN :
                    IF sent
                    THEN /\ reviewMsg' = [reviewMsg EXCEPT ![f.u] = "buttons"]
                         /\ pendingReviews' = pendingReviews \cup {f.u}
                         /\ call' = [call EXCEPT ![i] =
                                         Finish(f, "ok", "", [reply |-> "submitted"])]
                    ELSE /\ call' = [call EXCEPT ![i] = Finish(f, "err", "SendFailed", <<>>)]
                         /\ UNCHANGED <<pendingReviews, reviewMsg>>
              /\ UNCHANGED user

\* a curator clicks Correct or Wrong on the message forwarded for u
ClickReview(i, u, c) ==
    /\ call[i].status # "run"
    /\ reviewMsg[u] = "buttons"
    /\ RowAttempts(u) < MaxAttempts
    /\ call' = [call EXCEPT ![i] =
                    NewCall("review", u, ReviewProblem, c, 0, "rv_recordAttempt", EmptyStore)]
    /\ UNCHANGED <<user, problem, userAttempt, sheet, ncalls, snap, bot>>

\* the button handler up to its next await; nothing catches a recordAttempt
\* that throws, and a failed log message leaves wasLogged false
ReviewStep(i) ==
    LET f == call[i]
    IN  /\ f.op = "review" /\ f.status = "run"
        /\ UNCHANGED <<sheet, ncalls, snap>>
        /\ \/ /\ f.pc = "rv_recordAttempt"
              /\ LET r == RunCall(Store, NewCall("recordAttempt", f.u, f.p, f.c, 0,
                                                 "ra_findProblem", EmptyStore))
                 IN  /\ user' = r.s.user
                     /\ problem' = r.s.problem
                     /\ userAttempt' = r.s.userAttempt
                     /\ call' = [call EXCEPT ![i] =
                                     IF r.f.status = "err" THEN Finish(f, "err", r.f.err, <<>>)
                                     ELSE [f EXCEPT !.pc = "rv_log"]]
              /\ UNCHANGED bot
           \/ /\ f.pc = "rv_log"
              /\ \E wasLogged \in BOOLEAN :
                    /\ cooldowns' = IF ~f.c THEN cooldowns \cup {f.u} ELSE cooldowns
                    /\ pendingReviews' =
                          IF wasLogged THEN pendingReviews \ {f.u} ELSE pendingReviews
              /\ call' = [call EXCEPT ![i] = [f EXCEPT !.pc = "rv_edit"]]
              /\ UNCHANGED <<user, problem, userAttempt, reviewMsg>>
           \/ /\ f.pc = "rv_edit"
              /\ reviewMsg' = [reviewMsg EXCEPT ![f.u] = "processed"]
              /\ call' = [call EXCEPT ![i] = Finish(f, "ok", "", <<>>)]
              /\ UNCHANGED <<user, problem, userAttempt, pendingReviews, cooldowns>>

\* Date.now() passes the cooldown end of u
CooldownExpires(u) ==
    /\ u \in cooldowns
    /\ cooldowns' = cooldowns \ {u}
    /\ UNCHANGED <<user, problem, userAttempt, sheet, call, ncalls, snap,
                   pendingReviews, reviewMsg>>

\* /finalize or /unfinalize of the current problem, run to its end
SlashCommand(op, pc) ==
    LET r == RunCall(Store, NewCall(op, "-", ReviewProblem, FALSE, 0, pc, EmptyStore))
    IN  /\ r.f.status = "ok"
        /\ user' = r.s.user
        /\ problem' = r.s.problem
        /\ userAttempt' = r.s.userAttempt
        /\ UNCHANGED <<sheet, call, ncalls, snap, bot>>

NextReview ==
    \/ \E i \in Procs, u \in ReviewUsers : SendDirectMessage(i, u)
    \/ \E i \in Procs : DmStep(i)
    \/ \E i \in Procs, u \in ReviewUsers, c \in BOOLEAN : ClickReview(i, u, c)
    \/ \E i \in Procs : ReviewStep(i)
    \/ \E u \in ReviewUsers : CooldownExpires(u)
    \/ SlashCommand("finalize", "fin_findProblem")
    \/ SlashCommand("unfinalize", "unf_findProblem")

SpecReview == Init /\ [][NextReview]_vars

-----------------------------------------------------------------------------
(* Claims.  Under Spec every step is one whole call: the unprimed variables
   are the store before it, the primed ones the store after it, and call'[1]
   is the call with its result. *)

last == call[1]
Did(op) == call'[1].op = op /\ ncalls' = ncalls + 1
Returned(op) == Did(op) /\ call'[1].status = "ok"
Threw(op, err) == Did(op) /\ call'[1].status = "err" /\ call'[1].err = err
StoreUnchanged == UNCHANGED <<user, problem, userAttempt>>

SolvedPairs(s, p) == {u \in Users : s.userAttempt[<<u, p>>].exists /\ s.userAttempt[<<u, p>>].solved}

\* C1: finalize(P) immediately followed by unfinalize(P) leaves every solved
\* row of P with the awardedXp it had before the finalize and every user's xp
\* at its value before the finalize.
C1_RoundTripRestoresAwardsAndXp ==
    snap.on = "restored" =>
        /\ \A u \in SolvedPairs(snap.s, snap.p) :
              userAttempt[<<u, snap.p>>].awardedXp = snap.s.userAttempt[<<u, snap.p>>].awardedXp
        /\ \A u \in Users : user[u].xp = snap.s.user[u].xp

\* C2: while P is finalized, recordAttempt(u, P, c) fails and leaves the store
\* unchanged; on a problem that is not finalized (as after a successful
\* unfinalize) it is accepted.
C2_FinalizedRejectsAttempts ==
    [][Did("recordAttempt") =>
          LET p == call'[1].p
          IN  /\ problem[p].isFinalized =>
                    Threw("recordAttempt", "Finalized") /\ StoreUnchanged
              /\ problem[p].exists /\ ~problem[p].isFinalized => Returned("recordAttempt")]_vars

C2_Witness ==
    /\ last.op = "recordAttempt" /\ last.err = "Finalized"
    /\ problem[last.p].isFinalized

\* C3: recordAttempt(u, P, true) on a pair whose row is already solved returns
\* awardedXP = 0 and leaves u's xp, the row's awardedXp and P.solves as they
\* were; only the attempt counters go up.
C3_SolveCreditedOnce ==
    [][Did("recordAttempt") /\ call'[1].c
         /\ userAttempt[<<call'[1].u, call'[1].p>>].exists
         /\ userAttempt[<<call'[1].u, call'[1].p>>].solved =>
          LET u == call'[1].u
              p == call'[1].p
              k == <<u, p>>
          IN  /\ user'[u].xp = user[u].xp
              /\ userAttempt'[k].awardedXp = userAttempt[k].awardedXp
              /\ userAttempt'[k].solved
              /\ problem'[p].solves = problem[p].solves
              /\ Returned("recordAttempt") =>
                    /\ call'[1].ret.awardedXP = 0
                    /\ call'[1].ret.totalProblemSolves = problem[p].solves
                    /\ userAttempt'[k].attempts = userAttempt[k].attempts + 1
                    /\ problem'[p].attempts = problem[p].attempts + 1]_vars

C3_Witness ==
    /\ last.op = "recordAttempt" /\ last.status = "ok" /\ last.c
    /\ last.ret.awardedXP = 0
    /\ last.ret.attemptNumber = 2
    /\ userAttempt[<<last.u, last.p>>].awardedXp = 100
    /\ user[last.u].xp = 100

\* C7: if P is finalized then every solved UserAttempt row of P has a
\* non-null preFinalizeAwardedXp.
C7_FinalizedRowsHaveSnapshot ==
    \A p \in Problems : problem[p].isFinalized =>
        \A u \in SolvedPairs(Store, p) : userAttempt[<<u, p>>].preFinalizeAwardedXp # Null

C7_Witness ==
    \E p \in Problems :
        /\ problem[p].isFinalized
        /\ Cardinality(SolvedPairs(Store, p)) = 2
        /\ \E u \in Users : userAttempt[<<u, p>>].preFinalizeAwardedXp = Some(0)

\* C8: while P stays finalized, no operation changes P.baseScore.
C8_BaseScoreFrozen ==
    [][\A p \in Problems :
          problem[p].isFinalized /\ problem'[p].isFinalized =>
              problem'[p].baseScore = problem[p].baseScore]_vars

\* C9: finalize on a finalized problem and unfinalize on a problem that is not
\* finalized fail, and change no user, row or problem.
C9_RepeatedTransitionFails ==
    [][/\ Did("finalize") /\ problem[call'[1].p].isFinalized =>
              Threw("finalize", "AlreadyFinalized") /\ StoreUnchanged
       /\ Did("unfinalize") /\ problem[call'[1].p].exists /\ ~problem[call'[1].p].isFinalized =>
              Threw("unfinalize", "NotFinalized") /\ StoreUnchanged]_vars

C9_Witness ==
    /\ last.op = "finalize" /\ last.err = "AlreadyFinalized"
    /\ \E u \in SolvedPairs(Store, last.p) : userAttempt[<<u, last.p>>].finalizeDelta # 0

\* C10: every user's xp is >= 0 in every state, and every balance update
\* writes max(0, current + delta).
C10_XpNeverNegative ==
    /\ [](\A u \in Users : user[u].xp >= 0)
    /\ [][/\ Returned("addXP") =>
                user'[call'[1].u].xp = Max(0, user[call'[1].u].xp + call'[1].amt)
          /\ Returned("removeXP") =>
                user'[call'[1].u].xp = Max(0, user[call'[1].u].xp - call'[1].amt)
          /\ Returned("recordAttempt") =>
                user'[call'[1].u].xp = Max(0, user[call'[1].u].xp + call'[1].ret.awardedXP)
          /\ Returned("finalize") =>
                \A u \in Users :
                    user'[u].xp = Max(0, user[u].xp + userAttempt'[<<u, call'[1].p>>].finalizeDelta)
          /\ Returned("unfinalize") =>
                \A u \in Users :
                    user'[u].xp = Max(0, user[u].xp - userAttempt[<<u, call'[1].p>>].finalizeDelta)]_vars

C10_Witness ==
    /\ last.op = "finalize" /\ last.status = "ok"
    /\ \E u \in Users :
          /\ userAttempt[<<u, last.p>>].finalizeDelta < 0
          /\ user[u].xp = 0
          /\ snap.s.user[u].xp > 0

-----------------------------------------------------------------------------
(* Claims about calls taken await by await (SpecFault, SpecConc): call[i].pre
   is the store when call i started. *)

\* C4: a finalize or unfinalize that fails leaves the store exactly as it was
\* before the call.
C4_FailedFinalizeChangesNothing ==
    \A i \in Procs :
        call[i].op \in {"finalize", "unfinalize"} /\ call[i].status = "err" =>
            Store = call[i].pre

Overlapped(a, b) == a.seq \in b.conc \/ b.seq \in a.conc
Earlier(a, b) == IF a.seq < b.seq THEN a ELSE b

\* C5: two concurrent recordAttempt(u, P, true) calls for a pair that was not
\* solved raise P.solves by exactly 1 and u's xp by exactly one award.
C5_ConcurrentSolveCountedOnce ==
    LET a == call[1]
        b == call[2]
        pre == Earlier(a, b).pre
        k == <<a.u, a.p>>
    IN  /\ a.op = "recordAttempt" /\ b.op = "recordAttempt"
        /\ a.status = "ok" /\ b.status = "ok"
        /\ a.u = b.u /\ a.p = b.p /\ a.c /\ b.c
        /\ Overlapped(a, b)
        /\ ~pre.userAttempt[k].solved
        => /\ problem[a.p].solves = pre.problem[a.p].solves + 1
           /\ user[a.u].xp = pre.user[a.u].xp + Max(a.ret.awardedXP, b.ret.awardedXP)

\* C6: two concurrent finalize calls on P, or a finalize concurrent with an
\* unfinalize, behave as if run one after the other: two overlapping finalize
\* calls do not both succeed, and a solver's xp is moved by the finalize delta
\* once.
C6_ConcurrentFinalizeSerialized ==
    LET a == call[1]
        b == call[2]
        pre == Earlier(a, b).pre
    IN  /\ a.op = "finalize" /\ b.op = "finalize" /\ a.p = b.p
        /\ Overlapped(a, b)
        /\ a.status # "run" /\ b.status # "run"
        => /\ ~(a.status = "ok" /\ b.status = "ok")
           /\ \A u \in SolvedPairs(pre, a.p) :
                 problem[a.p].isFinalized =>
                     user[u].xp = Max(0, pre.user[u].xp + userAttempt[<<u, a.p>>].finalizeDelta)

-----------------------------------------------------------------------------
(* Further claims about whole calls (Spec) *)

\* C11: a first solve of a pair on a problem with a positive originalBaseScore
\* returns awardedXP = floor(originalBaseScore * 0.8^min(5, n - 1)), n being
\* the row's attempt count with this call; the user's xp rises by that amount
\* and the row's awardedXp is set to it (100 on attempt 1, 80 on attempt 2 for
\* an originalBaseScore of 100).
C11_FirstSolveAward ==
    [][Returned("recordAttempt") /\ call'[1].c
         /\ ~userAttempt[<<call'[1].u, call'[1].p>>].solved
         /\ problem'[call'[1].p].originalBaseScore > 0 =>
          LET u == call'[1].u
              k == <<u, call'[1].p>>
              orig == problem'[call'[1].p].originalBaseScore
              n == userAttempt'[k].attempts
              e == Min(5, n - 1)
              award == call'[1].ret.awardedXP
          IN  /\ n = userAttempt[k].attempts + 1
              /\ call'[1].ret.attemptNumber = n
              /\ award * Pow(5, e) <= orig * Pow(4, e)
              /\ orig * Pow(4, e) < (award + 1) * Pow(5, e)
              /\ user'[u].xp = user[u].xp + award
              /\ userAttempt'[k].awardedXp = award
              /\ orig = 100 /\ n = 1 => award = 100
              /\ orig = 100 /\ n = 2 => award = 80]_vars

C11_Witness ==
    /\ last.op = "recordAttempt" /\ last.status = "ok" /\ last.c
    /\ last.ret.awardedXP = 80 /\ last.ret.attemptNumber = 2
    /\ user[last.u].xp = 80
    /\ problem[last.p].baseScore < 80

\* C12: resetProblemStats(P) deletes every row of P, zeroes P.attempts and
\* P.solves, sets P.baseScore to a positive originalBaseScore, returns the
\* number of rows deleted, and leaves every user's xp and every other problem
\* and its rows as they were.
C12_ResetFrame ==
    [][Returned("reset") =>
          LET p == call'[1].p
          IN  /\ \A u \in Users : userAttempt'[<<u, p>>] = NoAttempt
              /\ problem'[p].attempts = 0
              /\ problem'[p].solves = 0
              /\ problem[p].originalBaseScore > 0 =>
                    problem'[p].baseScore = problem[p].originalBaseScore
              /\ call'[1].ret.clearedUserAttempts =
                    Cardinality({u \in Users : userAttempt[<<u, p>>].exists})
              /\ user' = user
              /\ \A q \in Problems \ {p} :
                    /\ problem'[q] = problem[q]
                    /\ \A u \in Users : userAttempt'[<<u, q>>] = userAttempt[<<u, q>>]]_vars

C12_Witness ==
    /\ last.op = "reset" /\ last.status = "ok"
    /\ last.ret.clearedUserAttempts = 2
    /\ \E u \in Users : user[u].xp > 0
    /\ problem[last.p].baseScore = 100

\* C13: finalize(P) immediately followed by unfinalize(P) returns the Problem
\* record of P to its value before the finalize.
C13_RoundTripRestoresProblem ==
    snap.on = "restored" => problem[snap.p] = snap.s.problem[snap.p]

\* C14: a positive originalBaseScore is never changed by any operation, and
\* originalBaseScore is written only by a recordAttempt that creates the
\* problem or finds the value <= 0.
C14_OriginalBaseScoreImmutable ==
    [][\A p \in Problems :
          /\ problem[p].exists /\ problem[p].originalBaseScore > 0 =>
                /\ problem'[p].exists
                /\ problem'[p].originalBaseScore = problem[p].originalBaseScore
          /\ problem'[p].originalBaseScore # problem[p].originalBaseScore =>
                /\ Did("recordAttempt") /\ call'[1].p = p
                /\ ~problem[p].exists \/ problem[p].originalBaseScore <= 0]_vars

C14_Witness ==
    /\ last.op = "unfinalize" /\ last.status = "ok"
    /\ problem[last.p].originalBaseScore = 100
    /\ problem[last.p].baseScore # 100
    /\ problem[last.p].attempts = 0

\* C15: a solved row stays solved under every operation; it ceases to exist
\* only through resetProblemStats of its problem.
C15_SolvedLatch ==
    [][\A k \in Pairs :
          userAttempt[k].exists /\ userAttempt[k].solved =>
              \/ userAttempt'[k].exists /\ userAttempt'[k].solved
              \/ Returned("reset") /\ call'[1].p = k[2] /\ ~userAttempt'[k].exists]_vars

C15_Witness ==
    /\ last.op = "recordAttempt" /\ last.status = "ok" /\ ~last.c
    /\ last.ret.attemptNumber = 2
    /\ userAttempt[<<last.u, last.p>>].solved

\* C17: finalize, unfinalize and reset of a problem number with no Problem
\* record fail with a not-found error and change nothing in the store.
C17_MissingProblemNotFound ==
    [][\A op \in {"finalize", "unfinalize", "reset"} :
          Did(op) /\ ~problem[call'[1].p].exists =>
              Threw(op, "NotFound") /\ StoreUnchanged]_vars

C17_Witness ==
    /\ last.op \in {"finalize", "unfinalize", "reset"}
    /\ last.err = "NotFound"
    /\ ~problem[last.p].exists
    /\ \E q \in Problems : problem[q].exists

\* the step in which B solves on attempt 2 a problem with originalBaseScore
\* 100 that A has solved on attempt 1
ScenarioSecondSolve ==
    /\ Returned("recordAttempt") /\ call'[1].c
    /\ problem'[call'[1].p].originalBaseScore = 100
    /\ ~userAttempt[<<call'[1].u, call'[1].p>>].solved
    /\ call'[1].ret.attemptNumber = 2
    /\ \A o \in Users \ {call'[1].u} :
          /\ userAttempt'[<<o, call'[1].p>>].solved
          /\ userAttempt'[<<o, call'[1].p>>].attempts = 1

\* C20: with originalBaseScore 100, after A solved on attempt 1 and B solves
\* on attempt 2, weightedSolves is 1.8 and the base score written is
\* getDynamicBaseFromWeightedSolves(1.8) = 25.
C20_ScenarioBaseScore ==
    [][ScenarioSecondSolve =>
          /\ call'[1].ret.weightedSolves = 180000
          /\ call'[1].ret.currentBaseScore = 25
          /\ problem'[call'[1].p].baseScore = 25]_vars

\* C20 as the scenario states it: the base score after B's solve is about 32.
C20_ScenarioBaseScoreAbout32 ==
    [][ScenarioSecondSolve =>
          /\ call'[1].ret.weightedSolves = 180000
          /\ call'[1].ret.currentBaseScore \in 31..33]_vars

C20_Witness ==
    /\ last.op = "recordAttempt" /\ last.status = "ok" /\ last.c
    /\ last.ret.originalBaseScore = 100
    /\ last.ret.awardedXP = 80
    /\ last.ret.weightedSolves = 180000
    /\ problem[last.p].solves = 2
    /\ problem[last.p].baseScore = 25

-----------------------------------------------------------------------------
(* A claim about the store between the awaits of a call (SpecFault) *)

\* C16: every UserAttempt row in the store has attempts >= 1, also between
\* the store requests of a recordAttempt and after a recordAttempt that failed
\* part-way.
C16_RowsHaveAttempts ==
    \A k \in Pairs : userAttempt[k].exists => userAttempt[k].attempts >= 1

-----------------------------------------------------------------------------
(* Claims about the decay model (SpecDecay) *)

Applied(i, op) == call[i].op = op /\ call[i].status = "ok"

\* C18: getSolveWeight(1) = 1, getSolveWeight(n) = 0.8^5 for every n >= 6,
\* getSolveWeight(n) = 0.8^clamp(n - 1, 0, 5), and getSolveWeight is
\* non-increasing in n for n >= 0.
C18_SolveWeightClamped ==
    \A i \in Procs :
        Applied(i, "getSolveWeight") =>
            LET n == call[i].amt
                e == IF n - 1 < 0 THEN 0 ELSE IF n - 1 > 5 THEN 5 ELSE n - 1
                w == call[i].ret.weight
            IN  /\ n = 1 => w = WeightScale
                /\ n >= 6 => w = 32768
                /\ w * Pow(5, e) = WeightScale * Pow(4, e)
                /\ \A j \in Procs :
                      Applied(j, "getSolveWeight") /\ n <= call[j].amt =>
                          w >= call[j].ret.weight

C18_Witness ==
    /\ Applied(1, "getSolveWeight") /\ Applied(2, "getSolveWeight")
    /\ call[1].amt = 6 /\ call[2].amt = 8
    /\ call[1].ret.weight = call[2].ret.weight
    /\ call[1].ret.weight < WeightScale

\* C19: getDynamicBaseFromWeightedSolves(w) >= 25 for every w >= 0, and it is
\* non-increasing in w.
C19_DynamicBaseFlooredNonIncreasing ==
    \A i \in Procs :
        Applied(i, "getDynamicBaseFromWeightedSolves") =>
            /\ call[i].ret.base >= 25
            /\ \A j \in Procs :
                  Applied(j, "getDynamicBaseFromWeightedSolves") /\ call[i].amt <= call[j].amt =>
                      call[i].ret.base >= call[j].ret.base

\* C19 as stated: strictly decreasing in w until the floor of 25 is reached.
C19_DynamicBaseStrictlyDecreasing ==
    \A i \in Procs :
        Applied(i, "getDynamicBaseFromWeightedSolves") =>
            /\ call[i].ret.base >= 25
            /\ \A j \in Procs :
                  Applied(j, "getDynamicBaseFromWeightedSolves") /\ call[i].amt < call[j].amt =>
                      call[i].ret.base > call[j].ret.base \/ call[i].ret.base = 25

C19_Witness ==
    /\ Applied(1, "getDynamicBaseFromWeightedSolves")
    /\ Applied(2, "getDynamicBaseFromWeightedSolves")
    /\ call[1].amt = 32768 /\ call[2].amt = 40960
    /\ call[1].ret.base = 30 /\ call[2].ret.base = 30

\* C21: addXP and removeXP never fail for an unknown user (the User is created
\* first), while adjustUserXPByDbId applied with a non-zero delta to an id that
\* has no User fails with NotFound.
C21_UnknownIdRejected ==
    [][/\ Did("addXP") \/ Did("removeXP") =>
              call'[1].status = "ok" /\ user'[call'[1].u].exists
       /\ Did("adjustUserXPByDbId") /\ ~user[call'[1].u].exists /\ call'[1].amt # 0 =>
              Threw("adjustUserXPByDbId", "NotFound")]_vars

\* the public half of C21 alone
C21_PublicPathNeverFails ==
    [][Did("addXP") \/ Did("removeXP") =>
          call'[1].status = "ok" /\ user'[call'[1].u].exists]_vars

\* what the code does for the unknown id: it returns normally, store untouched
C21_UnknownIdIgnored ==
    [][Did("adjustUserXPByDbId") /\ ~user[call'[1].u].exists =>
          Returned("adjustUserXPByDbId") /\ StoreUnchanged]_vars

C21_Witness ==
    /\ last.op = "adjustUserXPByDbId" /\ last.status = "ok" /\ last.amt # 0
    /\ ~user[last.u].exists
\* under SpecSheet and SpecFault caller 1 is the only caller: once its call has
\* ended the store is as the call left it, and call[1].pre is the store the
\* call started from
Ended(op) == call[1].op = op /\ call[1].status # "run"

\* C22: a recordAttempt whose sheet lookup fails, while it is creating the
\* Problem or backfilling an originalBaseScore <= 0, fails with that error and
\* has created or modified no Problem, User or UserAttempt.
C22_FailedLookupChangesNothing ==
    Ended("recordAttempt") /\ call[1].err = "SheetNotFound" => Store = call[1].pre

\* C22 where the Problem existed when the call started (the backfill of a
\* legacy row) or does not exist when it ends (the lookup for the create)
C22_FailedLookupOnLegacyOrNew ==
    /\ Ended("recordAttempt") /\ call[1].err = "SheetNotFound"
    /\ call[1].pre.problem[call[1].p].exists \/ ~problem[call[1].p].exists
    => Store = call[1].pre

C22_Witness ==
    /\ Ended("recordAttempt") /\ call[1].err = "SheetNotFound"
    /\ call[1].pre.problem[call[1].p].exists
    /\ call[1].pre.problem[call[1].p].originalBaseScore <= 0
\* a recordAttempt of caller 1 has ended as a first-time solve on a problem
\* whose originalBaseScore is not positive after the backfill
LegacyFirstSolve ==
    /\ Ended("recordAttempt") /\ call[1].status = "ok" /\ call[1].c
    /\ ~call[1].pre.userAttempt[<<call[1].u, call[1].p>>].solved
    /\ problem[call[1].p].originalBaseScore <= 0

\* C28: a first-time solve on a problem whose originalBaseScore is still not
\* positive after the backfill is awarded floor(B x solveWeight(attempts)), B
\* being the baseScore recomputed and persisted by that same call.
C28_LegacyAwardFromCurrentBase ==
    LegacyFirstSolve =>
        call[1].ret.awardedXP =
            AwardFor(problem[call[1].p].baseScore, call[1].ret.attemptNumber)

\* what the code awards: the baseScore the Problem had before the recompute
C28_LegacyAwardFromStaleBase ==
    LegacyFirstSolve =>
        LET before == call[1].pre.problem[call[1].p]
        IN  call[1].ret.awardedXP =
                AwardFor(IF before.exists THEN before.baseScore ELSE 0,
                         call[1].ret.attemptNumber)

C28_Witness ==
    /\ LegacyFirstSolve
    /\ call[1].ret.awardedXP # AwardFor(call[1].ret.currentBaseScore, call[1].ret.attemptNumber)
\* the sum of solveWeight(row.attempts) over the solved rows of p for the users us
RECURSIVE WeightOver(_, _, _)
WeightOver(s, p, us) ==
    IF us = {} THEN 0
    ELSE LET u == CHOOSE x \in us : TRUE
         IN  getSolveWeight(s.userAttempt[<<u, p>>].attempts) + WeightOver(s, p, us \ {u})

TotalWeight(s, p) == WeightOver(s, p, SolvedPairs(s, p))

\* C24: right after a successful finalize(P), with F the dynamic base score of
\* the summed solve weights of P's solved rows: P.baseScore = F, and every
\* solved row has awardedXp = floor(F x solveWeight(attempts)),
\* preFinalizeAwardedXp = its awardedXp before the call, and finalizeDelta =
\* awardedXp - preFinalizeAwardedXp, or 0 when preFinalizeAwardedXp is 0.
C24_FinalizedValues ==
    [][Returned("finalize") =>
          LET p == call'[1].p
              F == getDynamicBaseFromWeightedSolves(TotalWeight(Store', p))
          IN  /\ problem'[p].baseScore = F
              /\ call'[1].ret.finalBaseScore = F
              /\ \A u \in SolvedPairs(Store', p) :
                    LET old == userAttempt[<<u, p>>]
                        new == userAttempt'[<<u, p>>]
                    IN  /\ new.awardedXp = AwardFor(F, new.attempts)
                        /\ new.preFinalizeAwardedXp = Some(old.awardedXp)
                        /\ new.finalizeDelta =
                               IF old.awardedXp # 0 THEN new.awardedXp - old.awardedXp ELSE 0]_vars

C24_Witness ==
    /\ last.op = "finalize" /\ last.status = "ok"
    /\ \E u \in SolvedPairs(Store, last.p) : userAttempt[<<u, last.p>>].finalizeDelta # 0

\* the solved rows of p whose baseline award (preFinalizeAwardedXp ?? awardedXp) is 0
ZeroBaseline(s, p) ==
    {u \in SolvedPairs(s, p) :
        LET row == s.userAttempt[<<u, p>>]
        IN  IF row.preFinalizeAwardedXp = Null THEN row.awardedXp = 0
            ELSE row.preFinalizeAwardedXp = Some(0)}

\* C25: finalize leaves the xp of the user of a solved row with baseline 0 as
\* it is; the row gets preFinalizeAwardedXp = 0, awardedXp = the final award,
\* finalizeDelta = 0 and counts as initialized, not adjusted.  A later
\* unfinalize puts the row's awardedXp back to 0, changes no xp for it and
\* does not count it as reverted.
C25_ZeroBaselineKeepsXp ==
    [][/\ Returned("finalize") =>
             LET p == call'[1].p
             IN  /\ \A u \in ZeroBaseline(Store, p) :
                       /\ user'[u].xp = user[u].xp
                       /\ userAttempt'[<<u, p>>].preFinalizeAwardedXp = Some(0)
                       /\ userAttempt'[<<u, p>>].awardedXp =
                              AwardFor(problem'[p].baseScore, userAttempt[<<u, p>>].attempts)
                       /\ userAttempt'[<<u, p>>].finalizeDelta = 0
                 /\ call'[1].ret.initializedUsers = Cardinality(ZeroBaseline(Store, p))
                 /\ call'[1].ret.adjustedUsers =
                        Cardinality({u \in SolvedPairs(Store, p) \ ZeroBaseline(Store, p) :
                                        userAttempt'[<<u, p>>].awardedXp # userAttempt[<<u, p>>].awardedXp})
       /\ Returned("unfinalize") =>
             LET p == call'[1].p
             IN  /\ \A u \in ZeroBaseline(Store, p) :
                       /\ user'[u].xp = user[u].xp
                       /\ userAttempt'[<<u, p>>].awardedXp = 0
                       /\ userAttempt'[<<u, p>>].preFinalizeAwardedXp = Null
                 /\ call'[1].ret.revertedUsers =
                        Cardinality({u \in SolvedPairs(Store, p) \ ZeroBaseline(Store, p) :
                                        userAttempt[<<u, p>>].finalizeDelta # 0})]_vars

C25_Witness ==
    /\ last.op = "unfinalize" /\ last.status = "ok" /\ last.ret.revertedUsers = 0
    /\ \E u \in SolvedPairs(Store, last.p) : userAttempt[<<u, last.p>>].awardedXp = 0

\* C27: after every successful recordAttempt on P, P.baseScore is the dynamic
\* base score of W, the sum of solveWeight(row.attempts) over P's solved rows
\* as they are after the call; the call returns W and that baseScore.
C27_BaseScoreTracksRows ==
    [][Returned("recordAttempt") =>
          LET p == call'[1].p
              W == TotalWeight(Store', p)
          IN  /\ problem'[p].baseScore = getDynamicBaseFromWeightedSolves(W)
              /\ call'[1].ret.weightedSolves = W
              /\ call'[1].ret.currentBaseScore = problem'[p].baseScore]_vars

\* a re-submission after solving on the first attempt, which moved the base score
C27_Witness ==
    /\ last.op = "recordAttempt" /\ last.status = "ok" /\ last.ret.awardedXP = 0
    /\ userAttempt[<<last.u, last.p>>].solved
    /\ userAttempt[<<last.u, last.p>>].attempts = 2
    /\ userAttempt[<<last.u, last.p>>].awardedXp = problem[last.p].originalBaseScore
    /\ problem[last.p].baseScore = 27

\* C29: finalize(P) and unfinalize(P) change only P's baseScore, isFinalized
\* and finalizedAt, the awardedXp, preFinalizeAwardedXp and finalizeDelta of
\* P's solved rows, and the xp of users with a solved row on P.
C29_FinalizeFrame ==
    [][Did("finalize") \/ Did("unfinalize") =>
          LET p == call'[1].p
          IN  /\ problem'[p].exists = problem[p].exists
              /\ problem'[p].attempts = problem[p].attempts
              /\ problem'[p].solves = problem[p].solves
              /\ problem'[p].originalBaseScore = problem[p].originalBaseScore
              /\ \A q \in Problems \ {p} : problem'[q] = problem[q]
              /\ \A k \in Pairs :
                    /\ userAttempt'[k].exists = userAttempt[k].exists
                    /\ userAttempt'[k].attempts = userAttempt[k].attempts
                    /\ userAttempt'[k].solved = userAttempt[k].solved
                    /\ k[2] # p \/ ~userAttempt[k].solved => userAttempt'[k] = userAttempt[k]
              /\ \A u \in Users \ SolvedPairs(Store, p) : user'[u] = user[u]
              /\ \A u \in Users : user'[u].exists = user[u].exists]_vars

C29_Witness ==
    /\ last.op = "finalize" /\ last.status = "ok" /\ problem[last.p].attempts >= 2
    /\ \E u \in Users : userAttempt[<<u, last.p>>].exists /\ ~userAttempt[<<u, last.p>>].solved
    /\ \E u \in SolvedPairs(Store, last.p) : userAttempt[<<u, last.p>>].finalizeDelta # 0
\* C23: a recordAttempt(u, P, c) concurrent with a finalize(P) is rejected or
\* takes effect wholly before the finalize reads the solved rows: with the
\* finalize completed and P finalized, P.baseScore is the finalBaseScore the
\* finalize returned and every solved row of P has preFinalizeAwardedXp set.
C23_AttemptSerializedWithFinalize ==
    \A i, j \in Procs :
        LET a == call[i]
            b == call[j]
        IN  /\ a.op = "finalize" /\ a.status = "ok"
            /\ b.op = "recordAttempt" /\ b.status # "run" /\ b.p = a.p
            /\ Overlapped(a, b)
            /\ problem[a.p].isFinalized
            => /\ problem[a.p].baseScore = a.ret.finalBaseScore
               /\ \A u \in SolvedPairs(Store, a.p) :
                     userAttempt[<<u, a.p>>].preFinalizeAwardedXp # Null

RECURSIVE AttemptsOver(_, _, _)
AttemptsOver(s, p, us) ==
    IF us = {} THEN 0
    ELSE LET u == CHOOSE x \in us : TRUE
         IN  s.userAttempt[<<u, p>>].attempts + AttemptsOver(s, p, us \ {u})

CountersAgree(s, p) ==
    /\ s.problem[p].solves = Cardinality(SolvedPairs(s, p))
    /\ s.problem[p].attempts =
          AttemptsOver(s, p, {u \in Users : s.userAttempt[<<u, p>>].exists})

\* C30: once concurrent recordAttempt calls of different users on P have all
\* completed, P.solves is the number of P's solved rows and P.attempts the sum
\* of attempts over P's rows.
C30_CountersAgreeWithRows ==
    LET a == call[1]
        b == call[2]
    IN  /\ a.op = "recordAttempt" /\ b.op = "recordAttempt"
        /\ a.status = "ok" /\ b.status = "ok"
        /\ a.u # b.u /\ a.p = b.p
        /\ Overlapped(a, b)
        /\ CountersAgree(Earlier(a, b).pre, a.p)
        => CountersAgree(Store, a.p)

\* the same for calls that follow one another
C30_CountersAgreeSequentially ==
    \A p \in Problems : problem[p].exists => CountersAgree(Store, p)
RECURSIVE AwardsOver(_, _, _)
AwardsOver(s, u, ps) ==
    IF ps = {} THEN 0
    ELSE LET p == CHOOSE x \in ps : TRUE
         IN  s.userAttempt[<<u, p>>].awardedXp + AwardsOver(s, u, ps \ {p})

\* the sum of awardedXp over the UserAttempt rows of u
AwardsOf(s, u) == AwardsOver(s, u, {p \in Problems : s.userAttempt[<<u, p>>].exists})

\* C31: in a history of recordAttempt, finalize and unfinalize calls only,
\* every user's xp is the sum of awardedXp over that user's rows, also where
\* the first-solve award was 0 (an originalBaseScore of 1 solved on a later
\* attempt).
C31_LedgerMatchesRows ==
    \A u \in Users : user[u].exists => user[u].xp = AwardsOf(Store, u)

\* C31 for the users none of whose solved rows was frozen with a baseline of 0
C31_LedgerMatchesCreditedRows ==
    \A u \in Users :
        /\ user[u].exists
        /\ \A p \in CycleProblems :
              problem[p].isFinalized /\ userAttempt[<<u, p>>].solved =>
                  userAttempt[<<u, p>>].preFinalizeAwardedXp # Some(0)
        => user[u].xp = AwardsOf(Store, u)

\* C32: between completed operations a problem with isFinalized = false has
\* finalizedAt = null and all its rows have preFinalizeAwardedXp = null and
\* finalizeDelta = 0; a problem with isFinalized = true has finalizedAt set.
C32_PricingMatchesProblemState ==
    \A p \in Problems :
        /\ problem[p].exists /\ ~problem[p].isFinalized =>
              /\ problem[p].finalizedAt = Null
              /\ \A u \in Users :
                    userAttempt[<<u, p>>].exists =>
                        /\ userAttempt[<<u, p>>].preFinalizeAwardedXp = Null
                        /\ userAttempt[<<u, p>>].finalizeDelta = 0
        /\ problem[p].exists /\ problem[p].isFinalized => problem[p].finalizedAt # Null

\* a problem back in the live state after an unfinalize that reverted a delta
C32_Witness ==
    /\ last.op = "unfinalize" /\ last.status = "ok" /\ last.ret.revertedUsers >= 1
    /\ ~problem[last.p].isFinalized
    /\ \E u \in SolvedPairs(Store, last.p) : userAttempt[<<u, last.p>>].awardedXp # 0

\* the signed delta a completed call applied to its user's xp
XpDelta(f) ==
    CASE f.op = "addXP" -> f.amt
      [] f.op = "removeXP" -> -f.amt
      [] f.op = "recordAttempt" -> f.ret.awardedXP

Clamped(x, d) == Max(0, x + d)

\* C33: concurrent XP-mutating calls on the same user (addXP, removeXP, a
\* recordAttempt award) leave the user's xp at the result of applying all
\* their deltas, each clamped at zero, in some serial order.
C33_XpDeltasNotLost ==
    LET a == call[1]
        b == call[2]
        pre == Earlier(a, b).pre
        x0 == IF pre.user[a.u].exists THEN pre.user[a.u].xp ELSE 0
    IN  /\ a.op \in {"addXP", "removeXP", "recordAttempt"}
        /\ b.op \in {"addXP", "removeXP", "recordAttempt"}
        /\ a.status = "ok" /\ b.status = "ok"
        /\ a.u = b.u
        /\ Overlapped(a, b)
        => user[a.u].xp \in {Clamped(Clamped(x0, XpDelta(a)), XpDelta(b)),
                              Clamped(Clamped(x0, XpDelta(b)), XpDelta(a))}

\* the same for calls that follow one another
C33_XpDeltasAppliedInOrder ==
    [][Returned("addXP") \/ Returned("removeXP") \/ Returned("recordAttempt") =>
          LET u == call'[1].u
          IN  user'[u].xp = Clamped(IF user[u].exists THEN user[u].xp ELSE 0,
                                    XpDelta(call'[1]))]_vars

\* the button handler that ran for a click on u's submission has ended
ReviewEnded(u) ==
    \E i \in Procs : call[i].op = "review" /\ call[i].u = u /\ call[i].status # "run"

Handling(u) == \E i \in Procs : call[i].u = u /\ call[i].status = "run"

\* C34: a user added to pendingReviews when their DM was forwarded is removed
\* once the handler of a curator's Correct / Wrong click on that submission
\* has run, also when recordAttempt threw because the problem was finalized
\* and when the attempt-log message could not be sent.
C34_ReviewedUserReleased ==
    \A u \in Users : ReviewEnded(u) /\ ~Handling(u) => u \notin pendingReviews

\* a user left pending on a message whose buttons were replaced stays pending
C34_ProcessedPendingStays ==
    [][\A u \in Users :
          u \in pendingReviews /\ reviewMsg[u] = "processed" /\ ~Handling(u)
              => u \in pendingReviews' /\ reviewMsg'[u] = "processed"]_vars

\* the handler removes the user when recordAttempt returned and the log was sent
C34_Witness ==
    \E u \in Users :
        /\ ReviewEnded(u) /\ ~Handling(u) /\ reviewMsg[u] = "processed"
        /\ u \notin pendingReviews
====
